---- MODULE Spec2Model ----
(***************************************************************************)
(* Authentication / token lifecycle of the fastapi-di backend:            *)
(* AuthService.login / refresh_access_token / logout over the users       *)
(* table, the JWT provider, the Transactional decorator and the           *)
(* per-request session middleware.                                        *)
(*                                                                         *)
(* A request is a thread running its handler; it can be preempted at its  *)
(* database calls, so a handler is a short sequence of steps.  SeqSpec    *)
(* admits one request at a time (a client that waits for each answer),    *)
(* Spec admits requests while others are in flight.                       *)
(***************************************************************************)
EXTENDS Integers, Sequences, FiniteSets, TLC

(* ------------------------------ bounds --------------------------------- *)

\* how often the wall clock is advanced
MaxTicks == 2

\* how many requests a waiting client sends in one run
MaxRequests == 3

\* how many requests are admitted in one run when they may overlap
MaxRaced == 2

\* how many requests a waiting client sends in one run that also creates and
\* deletes users
MaxLife == 4

(* -------------------------- program constants -------------------------- *)

JWT_EXPIRATION_MINUTES == 1

JWT_REFRESH_EXPIRATION_MINUTES == 1440

SecondsPerMinute == 60

JWT_SECRET == "JWT_SECRET"

STATUS_OK == 200

STATUS_BAD_REQUEST == 400

STATUS_UNAUTHORIZED == 401

STATUS_NOT_FOUND == 404

STATUS_INTERNAL_SERVER_ERROR == 500

(* ------------------------------ universe ------------------------------- *)

\* request threads that can be in flight together
Slots == {1, 2}

\* worker processes, each with its own container
Procs == {1, 2}

\* session objects a process can hold (at most one per request in flight)
SessionIds == {1, 2}

\* alice, bob and carol have a row in users, ghost has none; carol's row holds
\* an empty password
Usernames == {"alice", "bob", "carol", "ghost"}

Passwords == {"secret123", "wrong999"}

\* a key that is not the configured secret
ForgedKey == "forged"

\* payload.get("sub") of a token without a subject
NoSub == ""

(* ------------------------------- tokens -------------------------------- *)

\* a JWT: its claims and the key its signature was made with
Token(sub, exp, scope, key) == [sub |-> sub, exp |-> exp, scope |-> scope, key |-> key]

\* NULL in the current_refresh_token column / None
Null == Token("", 0, "null", "")

\* marks "this session holds no pending write for the row"
NoWrite == Token("", 0, "nowrite", "")

AccessTTL == JWT_EXPIRATION_MINUTES * SecondsPerMinute

RefreshTTL == JWT_REFRESH_EXPIRATION_MINUTES * SecondsPerMinute

\* generate_access_token with the payload of generate_refresh_token
generate_access_token_AsRefresh(username, t) ==
    Token(username, t + RefreshTTL, "refresh", JWT_SECRET)

generate_access_token(username, t) == Token(username, t + AccessTTL, "access", JWT_SECRET)

\* generate_refresh_token with the expiry cut to the minute
generate_refresh_token_PerMinute(username, t) ==
    Token(username, ((t + RefreshTTL) \div SecondsPerMinute) * SecondsPerMinute,
          "refresh", JWT_SECRET)

generate_refresh_token(username, t) == Token(username, t + RefreshTTL, "refresh", JWT_SECRET)

(* --------------------------- outcomes ---------------------------------- *)

\* what the caller gets: the 200 answer or the HTTPException that was raised
Outcome(kind, status, detail) == [kind |-> kind, status |-> status, detail |-> detail]

Ok == Outcome("ok", STATUS_OK, "")

Pending == Outcome("pending", 0, "")

UserNotFoundException == Outcome("UserNotFound", STATUS_NOT_FOUND, "User not found")

UserAlreadyExistsException ==
    Outcome("UserAlreadyExists", STATUS_BAD_REQUEST, "User already exists")

\* what reading user_create_request.type raises: UserCreateRequestDto has no
\* such field; the handler for Exception answers it
AttributeError ==
    Outcome("AttributeError", STATUS_INTERNAL_SERVER_ERROR,
            "'UserCreateRequestDto' object has no attribute 'type'")

UnauthorizedException(detail) == Outcome("Unauthorized", STATUS_UNAUTHORIZED, detail)

(* ------------------------ JwtTokenProvider ----------------------------- *)

\* validate_token as it would be with the expiry check switched off
validate_token_NoExpiry(token, t) ==
    IF token.scope \notin {"access", "refresh"} \/ token.key # JWT_SECRET
    THEN [ok |-> FALSE, outcome |-> UnauthorizedException("Invalid token"), payload |-> Null]
    ELSE [ok |-> TRUE, outcome |-> Ok, payload |-> token]

\* jwt.decode: the signature is verified first, then exp against the clock;
\* a token is expired from the second of its exp claim on
validate_token(token, t) ==
    IF token.scope \notin {"access", "refresh"} \/ token.key # JWT_SECRET
    THEN [ok |-> FALSE, outcome |-> UnauthorizedException("Invalid token"), payload |-> Null]
    ELSE IF token.exp <= t
         THEN [ok |-> FALSE, outcome |-> UnauthorizedException("Token expired"), payload |-> Null]
         ELSE [ok |-> TRUE, outcome |-> Ok, payload |-> token]

(* ------------------------- token_dependencies -------------------------- *)

\* get_current_username without the scope check
get_current_username_NoScope(token, t) ==
    LET v == validate_token(token, t)
    IN  IF ~v.ok
        THEN [outcome |-> v.outcome, username |-> NoSub]
        ELSE IF v.payload.sub = NoSub
        THEN [outcome |-> UnauthorizedException("Invalid token: subject missing"),
              username |-> NoSub]
        ELSE [outcome |-> Ok, username |-> v.payload.sub]

\* get_current_username: validate_token, the scope check, then
\* get_username_from_token
get_current_username(token, t) ==
    LET v == validate_token(token, t)
    IN  IF ~v.ok
        THEN [outcome |-> v.outcome, username |-> NoSub]
        ELSE IF v.payload.scope # "access"
        THEN [outcome |-> UnauthorizedException("Invalid token scope"), username |-> NoSub]
        ELSE IF v.payload.sub = NoSub
        THEN [outcome |-> UnauthorizedException("Invalid token: subject missing"),
              username |-> NoSub]
        ELSE [outcome |-> Ok, username |-> v.payload.sub]

(* --------------------------- users table ------------------------------- *)

NoHash == <<>>

hash_password(plain) == <<"hash", plain>>

verify_password(plain, hashed) == hashed = hash_password(plain)

\* NULL in the deleted_at column
NotDeleted == -1

\* a row of users; present = FALSE stands for "no such row"
Row(present, password, crt) ==
    [present |-> present, password |-> password, current_refresh_token |-> crt,
     deleted_at |-> NotDeleted]

NoRow == Row(FALSE, NoHash, Null)

InitialStore ==
    [u \in Usernames |->
        IF u = "ghost" THEN NoRow
        ELSE IF u = "carol" THEN Row(TRUE, NoHash, Null)
        ELSE Row(TRUE, hash_password("secret123"), Null)]

\* the pending current_refresh_token writes of a session without any
Clean == [u \in Usernames |-> NoWrite]

\* a flushed, uncommitted statement on a row: none, the DELETE of
\* delete_by_id or the UPDATE of soft_delete_by_id
RowOp(op, t) == [op |-> op, deleted_at |-> t]

NoOp == RowOp("none", NotDeleted)

\* the pending row statements of a session without any
Unstaged == [u \in Usernames |-> NoOp]

\* the rows under a session's pending row statements
Staged(table, ops) ==
    [u \in Usernames |->
        IF ops[u].op = "delete" THEN NoRow
        ELSE IF ops[u].op = "soft_delete" /\ table[u].present
        THEN [table[u] EXCEPT !.deleted_at = ops[u].deleted_at]
        ELSE table[u]]

\* the table as read through a session: the committed rows under the session's
\* own flushed, uncommitted writes (each read sees the rows committed by then;
\* a flushed write is seen by the writing session alone until its commit)
View(table, pending) ==
    [u \in Usernames |->
        IF table[u].present /\ pending[u] # NoWrite
        THEN [table[u] EXCEPT !.current_refresh_token = pending[u]]
        ELSE table[u]]

\* session.commit(): the pending writes become the committed rows
Committed(table, pending) == View(table, pending)

\* entity_to_domain(entity) if entity else None
get_user_by_username(view, username) ==
    IF username \in Usernames THEN view[username] ELSE NoRow

\* BaseRepository.update through update_refresh_token: False (nothing written)
\* when the row is not found, else the attribute is set and flushed
update_refresh_token(view, pending, username, token) ==
    IF ~get_user_by_username(view, username).present
    THEN pending
    ELSE [pending EXCEPT ![username] = token]

(* ---------------------------- AuthService ------------------------------ *)

\* LoginCheck with "and" for the "or" of the credential check
LoginCheck_AndForOr(user_domain, password) ==
    IF ~user_domain.present
    THEN UserNotFoundException
    ELSE IF user_domain.password = NoHash /\ ~verify_password(password, user_domain.password)
         THEN UnauthorizedException("Invalid credentials")
         ELSE Ok

\* LoginCheck with the credential check before the existence check
LoginCheck_CredentialFirst(user_domain, password) ==
    IF user_domain.password = NoHash \/ ~verify_password(password, user_domain.password)
    THEN UnauthorizedException("Invalid credentials")
    ELSE IF ~user_domain.present
         THEN UserNotFoundException
         ELSE Ok

\* LoginCheck with an error of its own for a user without password hash
LoginCheck_NoHashError(user_domain, password) ==
    IF ~user_domain.present
    THEN UserNotFoundException
    ELSE IF user_domain.password = NoHash
         THEN UnauthorizedException("Password not set")
         ELSE IF ~verify_password(password, user_domain.password)
              THEN UnauthorizedException("Invalid credentials")
              ELSE Ok

\* login, up to the two raises: the existence check, then the credential check
LoginCheck(user_domain, password) ==
    IF ~user_domain.present
    THEN UserNotFoundException
    ELSE IF user_domain.password = NoHash \/ ~verify_password(password, user_domain.password)
         THEN UnauthorizedException("Invalid credentials")
         ELSE Ok

\* refresh_access_token without the comparison against the stored token
refresh_access_token_NoCompare(view, refresh_token, t) ==
    LET v == validate_token(refresh_token, t)
        username == v.payload.sub
        user_domain == get_user_by_username(view, username)
    IN  IF ~v.ok
        THEN [outcome |-> v.outcome, access_token |-> Null]
        ELSE IF username = NoSub
        THEN [outcome |-> UnauthorizedException("Invalid refresh token: subject missing"),
              access_token |-> Null]
        ELSE IF ~user_domain.present
        THEN [outcome |-> UserNotFoundException, access_token |-> Null]
        ELSE [outcome |-> Ok, access_token |-> generate_access_token(username, t)]

\* refresh_access_token that trusts a token equal to the stored one without
\* validating it
refresh_access_token_StoredFirst(view, refresh_token, t) ==
    LET v == validate_token(refresh_token, t)
        username == v.payload.sub
        user_domain == get_user_by_username(view, username)
        owner == get_user_by_username(view, refresh_token.sub)
    IN  IF owner.present /\ owner.current_refresh_token = refresh_token
        THEN [outcome |-> Ok, access_token |-> generate_access_token(refresh_token.sub, t)]
        ELSE IF ~v.ok
        THEN [outcome |-> v.outcome, access_token |-> Null]
        ELSE IF username = NoSub
        THEN [outcome |-> UnauthorizedException("Invalid refresh token: subject missing"),
              access_token |-> Null]
        ELSE IF ~user_domain.present
        THEN [outcome |-> UserNotFoundException, access_token |-> Null]
        ELSE [outcome |-> UnauthorizedException("Refresh token is invalid or has been logged out"),
              access_token |-> Null]

\* refresh_access_token that looks the subject's user up before it validates
\* the token
refresh_access_token_LookupFirst(view, refresh_token, t) ==
    LET v == validate_token(refresh_token, t)
        user_domain == get_user_by_username(view, refresh_token.sub)
    IN  IF refresh_token.sub # NoSub /\ ~user_domain.present
        THEN [outcome |-> UserNotFoundException, access_token |-> Null]
        ELSE IF ~v.ok
        THEN [outcome |-> v.outcome, access_token |-> Null]
        ELSE IF refresh_token.sub = NoSub
        THEN [outcome |-> UnauthorizedException("Invalid refresh token: subject missing"),
              access_token |-> Null]
        ELSE IF user_domain.current_refresh_token # refresh_token
        THEN [outcome |-> UnauthorizedException("Refresh token is invalid or has been logged out"),
              access_token |-> Null]
        ELSE [outcome |-> Ok, access_token |-> generate_access_token(refresh_token.sub, t)]

\* refresh_access_token: the outcome and the access token that is returned
refresh_access_token(view, refresh_token, t) ==
    LET v == validate_token(refresh_token, t)
        username == v.payload.sub
        user_domain == get_user_by_username(view, username)
    IN  IF ~v.ok
        THEN [outcome |-> v.outcome, access_token |-> Null]
        ELSE IF username = NoSub
        THEN [outcome |-> UnauthorizedException("Invalid refresh token: subject missing"),
              access_token |-> Null]
        ELSE IF ~user_domain.present
        THEN [outcome |-> UserNotFoundException, access_token |-> Null]
        ELSE IF user_domain.current_refresh_token # refresh_token
        THEN [outcome |-> UnauthorizedException("Refresh token is invalid or has been logged out"),
              access_token |-> Null]
        ELSE [outcome |-> Ok, access_token |-> generate_access_token(username, t)]

\* LogoutCheck without the comparison against the stored token
LogoutCheck_NoCompare(user_domain, refresh_token) ==
    IF ~user_domain.present THEN UserNotFoundException ELSE Ok

\* LogoutCheck that takes a logout of a user without a stored token as done
LogoutCheck_NullIsOk(user_domain, refresh_token) ==
    IF ~user_domain.present
    THEN UserNotFoundException
    ELSE IF /\ user_domain.current_refresh_token # Null
            /\ user_domain.current_refresh_token # refresh_token
         THEN UnauthorizedException("Refresh token mismatch")
         ELSE Ok

\* logout, up to the two raises: the existence check, then the comparison
LogoutCheck(user_domain, refresh_token) ==
    IF ~user_domain.present
    THEN UserNotFoundException
    ELSE IF user_domain.current_refresh_token # refresh_token
         THEN UnauthorizedException("Refresh token mismatch")
         ELSE Ok

(* ------------------------------- state --------------------------------- *)

VARIABLES
    now,        \* datetime.utcnow(), in seconds
    ticks,      \* how often the clock was advanced
    started,    \* requests admitted so far
    store,      \* the committed rows of users, by username
    overrides,  \* per process: the overriding stack of container.db_session
    dirty,      \* per process and session: its flushed, uncommitted writes
    staged,     \* per process and session: its flushed, uncommitted row statements
    open,       \* the sessions (process, session) that hold a transaction
    req,        \* per slot: the request in flight
    resp,       \* per slot: the answer to its last finished request
    lastCommit, \* the slot whose session.commit() ran last (0: none yet)
    lastTok,    \* per user: the refresh token of the last successful login since logout
    prevTok,    \* per user: the refresh token of the successful login before that one
    revoked,    \* per user: tokens that were stored and then cleared or replaced
    removed     \* per user: tokens that were stored in a row when it was deleted

vars == <<now, ticks, started, store, overrides, dirty, staged, open, req, resp,
          lastCommit, lastTok, prevTok, revoked, removed>>

Idle ==
    [pc |-> "idle", op |-> "none", proc |-> 0, username |-> "", password |-> "",
     token |-> Null, session |-> 0, created |-> FALSE, db |-> 0, outcome |-> Pending,
     access_token |-> Null, refresh_token |-> Null, pre |-> InitialStore,
     wrote |-> NoWrite, cleared |-> NoWrite, at |-> 0, overlapped |-> FALSE,
     repeats |-> FALSE, ended |-> "none", prior |-> Null, prior_at |-> 0]

NoResponse ==
    [op |-> "none", username |-> "", password |-> "", token |-> Null,
     outcome |-> Pending, access_token |-> Null, refresh_token |-> Null,
     pre |-> InitialStore, post |-> InitialStore, wrote |-> NoWrite,
     cleared |-> NoWrite, at |-> 0, overlapped |-> FALSE, created |-> FALSE,
     repeats |-> FALSE, ended |-> "none", prior |-> Null, prior_at |-> 0]

Init ==
    /\ now = 0
    /\ ticks = 0
    /\ started = 0
    /\ store = InitialStore
    /\ overrides = [p \in Procs |-> <<>>]
    /\ dirty = [p \in Procs |-> [s \in SessionIds |-> Clean]]
    /\ staged = [p \in Procs |-> [s \in SessionIds |-> Unstaged]]
    /\ open = {}
    /\ req = [r \in Slots |-> Idle]
    /\ resp = [r \in Slots |-> NoResponse]
    /\ lastCommit = 0
    /\ lastTok = [u \in Usernames |-> Null]
    /\ prevTok = [u \in Usernames |-> Null]
    /\ revoked = [u \in Usernames |-> {}]
    /\ removed = [u \in Usernames |-> {}]

InFlight == {r \in Slots : req[r].pc # "idle"}

AllIdle == InFlight = {}

\* container.db_session(): the last overriding provider's object, or, when
\* nothing overrides, a new session from the factory.  The override that the
\* middleware pushes is kept by the provider of the process-wide container, not
\* by the request: whoever calls the provider while any request of the process
\* is inside the middleware's "with" gets that request's session.
Top(stack) == stack[Len(stack)]

FreshSession(p) ==
    CHOOSE s \in SessionIds :
        /\ \A i \in 1..Len(overrides[p]) : overrides[p][i] # s
        /\ \A r \in Slots : req[r].pc # "idle" /\ req[r].proc = p => req[r].session # s

db_session(p) == IF overrides[p] = <<>> THEN FreshSession(p) ELSE Top(overrides[p])

\* the refresh tokens that were handed out or stored
TokensInPlay ==
    ({store[u].current_refresh_token : u \in Usernames}
        \cup {lastTok[u] : u \in Usernames}
        \cup {prevTok[u] : u \in Usernames}
        \cup UNION {revoked[u] : u \in Usernames}
        \cup {resp[r].refresh_token : r \in Slots})
    \ {Null}

\* tokens a client can make up or hold besides: one signed with another key,
\* one without a subject, one of a user that has no row, the same expiring at
\* this second, and an access token
CraftedTokens ==
    {Token("alice", now + RefreshTTL, "refresh", ForgedKey),
     Token(NoSub, now + RefreshTTL, "refresh", JWT_SECRET),
     generate_refresh_token("ghost", now),
     Token("ghost", now, "refresh", JWT_SECRET),
     generate_access_token("alice", now)}

\* what a client sends as refresh_token to PUT /tokens
TokenInputs == TokensInPlay \cup CraftedTokens

\* what a client sends as refresh_token to PATCH /tokens
LogoutInputs == TokensInPlay \cup {generate_access_token("alice", now)}

\* what a client sends as bearer token to a route that asks for the current
\* user: the access tokens it was answered with, its refresh tokens, an access
\* token without subject and one signed with another key
BearerInputs ==
    (({resp[r].access_token : r \in Slots} \cup {lastTok[u] : u \in Usernames}) \ {Null})
    \cup {Token(NoSub, now + AccessTTL, "access", JWT_SECRET),
          Token("alice", now + AccessTTL, "access", ForgedKey)}

(* ------------------------------ actions -------------------------------- *)

\* the wall clock moves on by a second or by the life of a refresh token
Tick ==
    /\ ticks < MaxTicks
    /\ \E d \in {1, RefreshTTL} : now' = now + d
    /\ ticks' = ticks + 1
    /\ UNCHANGED <<started, store, overrides, dirty, staged, req, resp, lastCommit,
                   lastTok, prevTok, revoked, removed, open>>

\* the request is the one the slot answered last with success, sent again
Repeats(r, op, username, password, token) ==
    /\ resp[r].op = op
    /\ resp[r].outcome = Ok
    /\ resp[r].token = token
    /\ op # "refresh" => resp[r].username = username /\ resp[r].password = password

\* db_session_middleware up to call_next: the session is taken from the
\* container and pushed as the override of its db_session provider
Begin(r, p, op, username, password, token) ==
    /\ req[r].pc = "idle"
    /\ started' = started + 1
    /\ overrides' = [overrides EXCEPT ![p] = Append(@, db_session(p))]
    /\ req' = [q \in Slots |->
                 IF q = r
                 THEN [Idle EXCEPT !.pc = "called", !.op = op, !.proc = p,
                                   !.username = username, !.password = password,
                                   !.token = token, !.session = db_session(p),
                                   !.created = (overrides[p] = <<>>),
                                   !.db = db_session(p), !.pre = store,
                                   !.overlapped = (InFlight # {}),
                                   !.repeats = Repeats(r, op, username, password, token),
                                   !.prior = IF Repeats(r, op, username, password, token)
                                             THEN resp[r].refresh_token ELSE Null,
                                   !.prior_at = IF Repeats(r, op, username, password, token)
                                                THEN resp[r].at ELSE 0]
                 ELSE IF req[q].pc # "idle"
                      THEN [req[q] EXCEPT !.overlapped = TRUE]
                      ELSE req[q]]
    /\ UNCHANGED <<now, ticks, store, dirty, staged, open, resp, lastCommit,
                   lastTok, prevTok, revoked, removed>>

\* the processes a new request can arrive at: while no request is in flight
\* every process is in the same state, and the first stands for all
Arrival == IF AllIdle THEN {1} ELSE Procs

\* POST /tokens
IssueTokens(r) ==
    \E p \in Arrival, username \in Usernames, password \in Passwords :
        Begin(r, p, "login", username, password, Null)

\* PUT /tokens
RefreshTokens(r) ==
    \E p \in Arrival, token \in TokenInputs :
        Begin(r, p, "refresh", "", "", token)

\* PATCH /tokens
RevokeTokens(r) ==
    \E p \in Arrival, username \in Usernames, token \in LogoutInputs :
        Begin(r, p, "logout", username, "", token)

\* a route with Depends(get_current_username)
Authenticated(r) ==
    \E p \in Arrival, token \in BearerInputs :
        Begin(r, p, "current_user", "", "", token)

\* the rows as session s of process p sees them
Seen(p, s) == View(Staged(store, staged[p][s]), dirty[p][s])

\* the rows as the request's session sees them
SessionView(r) == Seen(req[r].proc, req[r].db)

\* a statement through session s of process p begins its transaction
Opened(p, s) == open \cup {<<p, s>>}

\* session.close() on session s of process p
Closed(p, s) == open \ {<<p, s>>}

\* login, lines 35-42, entered through Transactional.wrapper, which takes its
\* session from the container
LoginRead(r) ==
    /\ req[r].pc = "called"
    /\ req[r].op = "login"
    /\ LET db == db_session(req[r].proc)
           user_domain == get_user_by_username(Seen(req[r].proc, db),
                                               req[r].username)
           check == LoginCheck(user_domain, req[r].password)
       IN  req' = [req EXCEPT ![r].db = db,
                              ![r].at = now,
                              ![r].outcome = IF check = Ok THEN Pending ELSE check,
                              ![r].pc = IF check = Ok THEN "verified" ELSE "raised"]
    /\ UNCHANGED <<now, ticks, started, store, overrides, dirty, staged, resp, lastCommit,
                   lastTok, prevTok, revoked, removed>>
    /\ open' = Opened(req[r].proc, db_session(req[r].proc))

\* LoginWrite that stores the access token in place of the refresh token
LoginWrite_StoresAccess(r) ==
    /\ req[r].pc = "verified"
    /\ req[r].op = "login"
    /\ dirty' = [dirty EXCEPT ![req[r].proc][req[r].db] =
                    update_refresh_token(SessionView(r), @, req[r].username,
                                         generate_access_token(req[r].username, now))]
    /\ req' = [req EXCEPT ![r].access_token = generate_access_token(req[r].username, now),
                          ![r].refresh_token = generate_refresh_token(req[r].username, now),
                          ![r].at = now,
                          ![r].outcome = Ok,
                          ![r].pc = "returned"]
    /\ UNCHANGED <<now, ticks, started, store, overrides, resp, lastCommit,
                   lastTok, prevTok, revoked, removed>>
    /\ open' = Opened(req[r].proc, req[r].db)
    /\ UNCHANGED staged

\* login, lines 44-49: both tokens are made and the refresh token is flushed
LoginWrite(r) ==
    /\ req[r].pc = "verified"
    /\ req[r].op = "login"
    /\ dirty' = [dirty EXCEPT ![req[r].proc][req[r].db] =
                    update_refresh_token(SessionView(r), @, req[r].username,
                                         generate_refresh_token(req[r].username, now))]
    /\ req' = [req EXCEPT ![r].access_token = generate_access_token(req[r].username, now),
                          ![r].refresh_token = generate_refresh_token(req[r].username, now),
                          ![r].at = now,
                          ![r].outcome = Ok,
                          ![r].pc = "returned"]
    /\ UNCHANGED <<now, ticks, started, store, overrides, resp, lastCommit,
                   lastTok, prevTok, revoked, removed>>
    /\ open' = Opened(req[r].proc, req[r].db)
    /\ UNCHANGED staged

\* Refresh as it would be if a refresh token could be used only once: the
\* stored token is cleared when the access token is issued
Refresh_ConsumesToken(r) ==
    /\ req[r].pc = "called"
    /\ req[r].op = "refresh"
    /\ LET db == db_session(req[r].proc)
           result == refresh_access_token(Seen(req[r].proc, db),
                                          req[r].token, now)
       IN  /\ req' = [req EXCEPT ![r].db = db,
                                 ![r].at = now,
                                 ![r].username = validate_token(req[r].token, now).payload.sub,
                                 ![r].outcome = result.outcome,
                                 ![r].access_token = result.access_token,
                                 ![r].pc = "closed"]
           /\ store' = IF result.outcome = Ok
                       THEN [store EXCEPT ![req[r].token.sub].current_refresh_token = Null]
                       ELSE store
    /\ UNCHANGED <<now, ticks, started, overrides, dirty, staged, resp, lastCommit,
                   lastTok, prevTok, revoked, removed>>
    /\ open' = IF /\ validate_token(req[r].token, now).ok
                   /\ validate_token(req[r].token, now).payload.sub # NoSub
                THEN Opened(req[r].proc, db_session(req[r].proc))
                ELSE open

\* refresh_access_token: not Transactional, it reads through the repository's
\* session and its exception goes straight to the handler
Refresh(r) ==
    /\ req[r].pc = "called"
    /\ req[r].op = "refresh"
    /\ LET db == db_session(req[r].proc)
           result == refresh_access_token(Seen(req[r].proc, db),
                                          req[r].token, now)
       IN  req' = [req EXCEPT ![r].db = db,
                              ![r].at = now,
                              ![r].username = validate_token(req[r].token, now).payload.sub,
                              ![r].outcome = result.outcome,
                              ![r].access_token = result.access_token,
                              ![r].pc = "closed"]
    /\ UNCHANGED <<now, ticks, started, store, overrides, dirty, staged, resp, lastCommit,
                   lastTok, prevTok, revoked, removed>>
    /\ open' = IF /\ validate_token(req[r].token, now).ok
                   /\ validate_token(req[r].token, now).payload.sub # NoSub
                THEN Opened(req[r].proc, db_session(req[r].proc))
                ELSE open

\* get_current_username, resolved for the route before its function runs
CurrentUser(r) ==
    /\ req[r].pc = "called"
    /\ req[r].op = "current_user"
    /\ LET result == get_current_username(req[r].token, now)
       IN  req' = [req EXCEPT ![r].at = now,
                              ![r].username = result.username,
                              ![r].outcome = result.outcome,
                              ![r].pc = "closed"]
    /\ UNCHANGED <<now, ticks, started, store, overrides, dirty, staged, resp, lastCommit,
                   lastTok, prevTok, revoked, removed, open>>

\* logout, lines 93-100
LogoutRead(r) ==
    /\ req[r].pc = "called"
    /\ req[r].op = "logout"
    /\ LET db == db_session(req[r].proc)
           user_domain == get_user_by_username(Seen(req[r].proc, db),
                                               req[r].username)
           check == LogoutCheck(user_domain, req[r].token)
       IN  req' = [req EXCEPT ![r].db = db,
                              ![r].at = now,
                              ![r].outcome = IF check = Ok THEN Pending ELSE check,
                              ![r].pc = IF check = Ok THEN "matched" ELSE "raised"]
    /\ UNCHANGED <<now, ticks, started, store, overrides, dirty, staged, resp, lastCommit,
                   lastTok, prevTok, revoked, removed>>
    /\ open' = Opened(req[r].proc, db_session(req[r].proc))

\* logout, line 102
LogoutWrite(r) ==
    /\ req[r].pc = "matched"
    /\ req[r].op = "logout"
    /\ dirty' = [dirty EXCEPT ![req[r].proc][req[r].db] =
                    update_refresh_token(SessionView(r), @, req[r].username, Null)]
    /\ req' = [req EXCEPT ![r].outcome = Ok, ![r].pc = "returned"]
    /\ UNCHANGED <<now, ticks, started, store, overrides, resp, lastCommit,
                   lastTok, prevTok, revoked, removed>>
    /\ open' = Opened(req[r].proc, req[r].db)
    /\ UNCHANGED staged

\* create_user: UserAlreadyExists when the username is taken (line 67-69);
\* otherwise line 72 reads user_create_request.type, an attribute the request
\* model does not have, and the AttributeError leaves the function before
\* anything is saved
CreateUser(r) ==
    /\ req[r].pc = "called"
    /\ req[r].op = "create"
    /\ LET db == db_session(req[r].proc)
           existing_user == get_user_by_username(Seen(req[r].proc, db), req[r].username)
       IN  /\ req' = [req EXCEPT ![r].db = db,
                                 ![r].at = now,
                                 ![r].outcome = IF existing_user.present
                                                THEN UserAlreadyExistsException
                                                ELSE AttributeError,
                                 ![r].pc = "raised"]
           /\ open' = Opened(req[r].proc, db)
    /\ UNCHANGED <<now, ticks, started, store, overrides, dirty, staged, resp, lastCommit,
                   lastTok, prevTok, revoked, removed>>

\* delete_user: the row is deleted; UserNotFound when no row was deleted
DeleteUser(r) ==
    /\ req[r].pc = "called"
    /\ req[r].op = "delete"
    /\ LET db == db_session(req[r].proc)
           result == Seen(req[r].proc, db)[req[r].username].present
       IN  /\ req' = [req EXCEPT ![r].db = db,
                                 ![r].at = now,
                                 ![r].outcome = IF result THEN Ok ELSE UserNotFoundException,
                                 ![r].pc = IF result THEN "returned" ELSE "raised"]
           /\ staged' = IF result
                        THEN [staged EXCEPT ![req[r].proc][db][req[r].username] =
                                 RowOp("delete", NotDeleted)]
                        ELSE staged
           /\ open' = Opened(req[r].proc, db)
    /\ UNCHANGED <<now, ticks, started, store, overrides, dirty, resp, lastCommit,
                   lastTok, prevTok, revoked, removed>>

\* soft_delete_user as it would be if it also revoked the refresh token
SoftDeleteUser_ClearsToken(r) ==
    /\ req[r].pc = "called"
    /\ req[r].op = "soft_delete"
    /\ LET db == db_session(req[r].proc)
           result == Seen(req[r].proc, db)[req[r].username].present
       IN  /\ req' = [req EXCEPT ![r].db = db,
                                 ![r].at = now,
                                 ![r].outcome = IF result THEN Ok ELSE UserNotFoundException,
                                 ![r].pc = IF result THEN "returned" ELSE "raised"]
           /\ staged' = IF result
                        THEN [staged EXCEPT ![req[r].proc][db][req[r].username] =
                                 RowOp("soft_delete", now)]
                        ELSE staged
           /\ dirty' = IF result
                       THEN [dirty EXCEPT ![req[r].proc][db][req[r].username] = Null]
                       ELSE dirty
           /\ open' = Opened(req[r].proc, db)
    /\ UNCHANGED <<now, ticks, started, store, overrides, resp, lastCommit,
                   lastTok, prevTok, revoked, removed>>

\* soft_delete_user: deleted_at of the row is set to the time of the
\* statement; UserNotFound when no row was updated
SoftDeleteUser(r) ==
    /\ req[r].pc = "called"
    /\ req[r].op = "soft_delete"
    /\ LET db == db_session(req[r].proc)
           result == Seen(req[r].proc, db)[req[r].username].present
       IN  /\ req' = [req EXCEPT ![r].db = db,
                                 ![r].at = now,
                                 ![r].outcome = IF result THEN Ok ELSE UserNotFoundException,
                                 ![r].pc = IF result THEN "returned" ELSE "raised"]
           /\ staged' = IF result
                        THEN [staged EXCEPT ![req[r].proc][db][req[r].username] =
                                 RowOp("soft_delete", now)]
                        ELSE staged
           /\ open' = Opened(req[r].proc, db)
    /\ UNCHANGED <<now, ticks, started, store, overrides, dirty, resp, lastCommit,
                   lastTok, prevTok, revoked, removed>>

\* Commit without the session.close() of the finally clause
Commit_NoClose(r) ==
    /\ req[r].pc = "returned"
    /\ store' = Committed(Staged(store, staged[req[r].proc][req[r].db]),
                          dirty[req[r].proc][req[r].db])
    /\ dirty' = [dirty EXCEPT ![req[r].proc][req[r].db] = Clean]
    /\ lastCommit' = r
    /\ req' = [req EXCEPT ![r].wrote = IF store[req[r].username].present
                                       THEN dirty[req[r].proc][req[r].db][req[r].username]
                                       ELSE NoWrite,
                          ![r].cleared = IF /\ store[req[r].username].present
                                            /\ dirty[req[r].proc][req[r].db][req[r].username]
                                                  = Null
                                         THEN store[req[r].username].current_refresh_token
                                         ELSE NoWrite,
                          ![r].ended = "commit",
                          ![r].pc = "closed"]
    /\ UNCHANGED <<now, ticks, started, overrides, resp, lastTok, prevTok, revoked, removed>>
    /\ staged' = [staged EXCEPT ![req[r].proc][req[r].db] = Unstaged]
    /\ UNCHANGED open

\* Transactional.wrapper after the function returned: commit, then close
Commit(r) ==
    /\ req[r].pc = "returned"
    /\ store' = Committed(Staged(store, staged[req[r].proc][req[r].db]),
                          dirty[req[r].proc][req[r].db])
    /\ dirty' = [dirty EXCEPT ![req[r].proc][req[r].db] = Clean]
    /\ lastCommit' = r
    /\ req' = [req EXCEPT ![r].wrote = IF store[req[r].username].present
                                       THEN dirty[req[r].proc][req[r].db][req[r].username]
                                       ELSE NoWrite,
                          ![r].cleared = IF /\ store[req[r].username].present
                                            /\ dirty[req[r].proc][req[r].db][req[r].username]
                                                  = Null
                                         THEN store[req[r].username].current_refresh_token
                                         ELSE NoWrite,
                          ![r].ended = "commit",
                          ![r].pc = "closed"]
    /\ UNCHANGED <<now, ticks, started, overrides, resp, lastTok, prevTok, revoked, removed>>
    /\ staged' = [staged EXCEPT ![req[r].proc][req[r].db] = Unstaged]
    /\ open' = Closed(req[r].proc, req[r].db)

\* Transactional.wrapper after the function raised: rollback, re-raise, close
Rollback(r) ==
    /\ req[r].pc = "raised"
    /\ dirty' = [dirty EXCEPT ![req[r].proc][req[r].db] = Clean]
    /\ req' = [req EXCEPT ![r].ended = "rollback", ![r].pc = "closed"]
    /\ UNCHANGED <<now, ticks, started, store, overrides, resp, lastCommit,
                   lastTok, prevTok, revoked, removed>>
    /\ staged' = [staged EXCEPT ![req[r].proc][req[r].db] = Unstaged]
    /\ open' = Closed(req[r].proc, req[r].db)

Response(r) ==
    [op |-> req[r].op, username |-> req[r].username, password |-> req[r].password,
     token |-> req[r].token, outcome |-> req[r].outcome,
     access_token |-> req[r].access_token, refresh_token |-> req[r].refresh_token,
     pre |-> req[r].pre, post |-> store, wrote |-> req[r].wrote,
     cleared |-> req[r].cleared, at |-> req[r].at,
     overlapped |-> req[r].overlapped, created |-> req[r].created,
     repeats |-> req[r].repeats, ended |-> req[r].ended, prior |-> req[r].prior,
     prior_at |-> req[r].prior_at]

\* db_session_middleware after call_next: the last override is popped, the
\* session is closed and the answer goes out
End(r) ==
    /\ req[r].pc = "closed"
    /\ overrides' = [overrides EXCEPT ![req[r].proc] = SubSeq(@, 1, Len(@) - 1)]
    /\ dirty' = [dirty EXCEPT ![req[r].proc][req[r].session] = Clean]
    /\ resp' = [resp EXCEPT ![r] = Response(r)]
    /\ req' = [req EXCEPT ![r] = Idle]
    /\ LET u == req[r].username
           old == req[r].pre[u].current_refresh_token
       IN  IF req[r].outcome = Ok /\ req[r].op = "login"
           THEN /\ prevTok' = [prevTok EXCEPT ![u] = lastTok[u]]
                /\ lastTok' = [lastTok EXCEPT ![u] = req[r].refresh_token]
                /\ revoked' = [revoked EXCEPT ![u] =
                                  @ \cup ({old} \ {Null, req[r].refresh_token})]
           ELSE IF req[r].outcome = Ok /\ req[r].op = "logout"
           THEN /\ prevTok' = [prevTok EXCEPT ![u] = Null]
                /\ lastTok' = [lastTok EXCEPT ![u] = Null]
                /\ revoked' = [revoked EXCEPT ![u] = @ \cup {req[r].token}]
           ELSE UNCHANGED <<lastTok, prevTok, revoked>>
    /\ removed' = IF req[r].outcome = Ok /\ req[r].op = "delete"
                  THEN [removed EXCEPT ![req[r].username] =
                           @ \cup ({req[r].pre[req[r].username].current_refresh_token}
                                      \ {Null})]
                  ELSE removed
    /\ UNCHANGED <<now, ticks, started, store, lastCommit>>
    /\ staged' = [staged EXCEPT ![req[r].proc][req[r].session] = Unstaged]
    /\ open' = Closed(req[r].proc, req[r].session)

Step(r) ==
    \/ LoginRead(r)
    \/ LoginWrite(r)
    \/ Refresh(r)
    \/ CurrentUser(r)
    \/ LogoutRead(r)
    \/ LogoutWrite(r)
    \/ Commit(r)
    \/ Rollback(r)
    \/ End(r)

\* requests are admitted while others are in flight (into the lowest free slot)
Admit(r) ==
    /\ started < MaxRaced
    /\ \A q \in Slots : q < r => req[q].pc # "idle"
    /\ (IssueTokens(r) \/ RefreshTokens(r) \/ RevokeTokens(r) \/ Authenticated(r))

Next ==
    \/ Tick
    \/ \E r \in Slots : Admit(r)
    \/ \E r \in Slots : Step(r)

Spec == Init /\ [][Next]_vars

\* a client that sends a request only after the answer to the one before
AdmitSeq ==
    /\ started < MaxRequests
    /\ AllIdle
    /\ (IssueTokens(1) \/ RefreshTokens(1) \/ RevokeTokens(1) \/ Authenticated(1))

SeqNext ==
    \/ Tick
    \/ AdmitSeq
    \/ \E r \in Slots : Step(r)

SeqSpec == Init /\ [][SeqNext]_vars

\* a client logs in and waits for the answer; after that requests are
\* admitted while others are in flight
AdmitRace(r) ==
    IF started = 0
    THEN r = 1 /\ Begin(1, 1, "login", "alice", "secret123", Null)
    ELSE /\ started < 1 + MaxRaced
         /\ resp[1].op # "none"
         /\ \A q \in Slots : q < r => req[q].pc # "idle"
         /\ (IssueTokens(r) \/ RefreshTokens(r) \/ RevokeTokens(r) \/ Authenticated(r))

RaceNext ==
    \/ Tick
    \/ \E r \in Slots : AdmitRace(r)
    \/ \E r \in Slots : Step(r)

RaceSpec == Init /\ [][RaceNext]_vars

\* the users of the requests of a client that also creates and deletes users
LifeUsers == {"alice", "ghost"}

\* the steps of the user management handlers
UserStep(r) ==
    \/ CreateUser(r)
    \/ DeleteUser(r)
    \/ SoftDeleteUser(r)

\* POST /users, DELETE /users/{user_seq}, PATCH /users/{user_seq}/soft-delete
\* besides the token routes, from a client that waits for each answer; the row
\* is named by its username
AdmitLife ==
    /\ started < MaxLife
    /\ AllIdle
    /\ \/ \E username \in LifeUsers, password \in Passwords :
              Begin(1, 1, "login", username, password, Null)
       \/ \E token \in TokensInPlay : Begin(1, 1, "refresh", "", "", token)
       \/ \E username \in LifeUsers, token \in TokensInPlay :
              Begin(1, 1, "logout", username, "", token)
       \/ \E token \in BearerInputs : Begin(1, 1, "current_user", "", "", token)
       \/ \E username \in LifeUsers, password \in Passwords :
              Begin(1, 1, "create", username, password, Null)
       \/ \E username \in LifeUsers : Begin(1, 1, "delete", username, "", Null)
       \/ \E username \in LifeUsers : Begin(1, 1, "soft_delete", username, "", Null)

LifeNext ==
    \/ Tick
    \/ AdmitLife
    \/ \E r \in Slots : Step(r)
    \/ \E r \in Slots : UserStep(r)

LifeSpec == Init /\ [][LifeNext]_vars

(* ------------------------------ claims --------------------------------- *)

\* the answer to the waiting client's last request
Answer == resp[1]

\* RefreshAccessToken(t) would succeed on the committed rows at this second
Accepted(t) == refresh_access_token(store, t, now).outcome = Ok

Rejected401(t) == refresh_access_token(store, t, now).outcome.kind = "Unauthorized"

AcceptedFor(u) == {t \in TokenInputs : t.sub = u /\ Accepted(t)}

\* C1: in every state, for every user, at most one of the refresh tokens a
\* client can present is accepted by RefreshAccessToken for that user.
C1_AtMostOneAcceptedToken ==
    \A u \in Usernames : Cardinality(AcceptedFor(u)) <= 1

\* C1 witness: one token of a user is accepted while another token of that
\* user, replaced earlier, still passes signature and expiry validation.
C1_Witness ==
    \E u \in Usernames :
        /\ Cardinality(AcceptedFor(u)) = 1
        /\ \E t \in revoked[u] : validate_token(t, now).ok /\ ~Accepted(t)

\* C2: after two successful logins of a user returning A and then B (and no
\* login or logout since), RefreshAccessToken(A) fails Unauthorized and
\* RefreshAccessToken(B) succeeds while B is unexpired.
C2_SecondLoginInvalidatesFirst ==
    \A u \in Usernames :
        AllIdle /\ prevTok[u] # Null /\ lastTok[u] # Null
        => /\ Rejected401(prevTok[u])
           /\ validate_token(lastTok[u], now).ok => Accepted(lastTok[u])

\* C3: after a successful Logout(u, R) the stored token of u is null and
\* RefreshAccessToken(R) fails Unauthorized; and a token once cleared by logout
\* or replaced by a login is rejected in every later state.
C3_RevokedTokenStaysRejected ==
    /\ Answer.op = "logout" /\ Answer.outcome = Ok
       => /\ Answer.post[Answer.username].current_refresh_token = Null
          /\ refresh_access_token(Answer.post, Answer.token, Answer.at).outcome.kind
                = "Unauthorized"
    /\ \A u \in Usernames : \A t \in revoked[u] : ~Accepted(t)

\* the slot other than r
Other(r) == CHOOSE q \in Slots : q # r

\* C4: a Login that returns tokens has persisted the returned refresh token by
\* its own commit, a Logout that returns has persisted null by its own commit,
\* and an operation that fails has committed nothing.
C4_AllOrNothing ==
    \A r \in Slots :
        /\ resp[r].op = "login" /\ resp[r].outcome = Ok
           => resp[r].wrote = resp[r].refresh_token
        /\ resp[r].op = "logout" /\ resp[r].outcome = Ok
           => resp[r].wrote = Null
        /\ resp[r].outcome \notin {Ok, Pending}
           => resp[r].wrote = NoWrite /\ resp[r].refresh_token = Null

\* C5: when two overlapping logins of one user have both returned tokens, the
\* stored token is the one of the login that committed last and the token
\* returned to the other login is rejected by RefreshAccessToken.
C5_ConcurrentLoginsLastCommitWins ==
    \A r \in Slots :
        /\ AllIdle
        /\ lastCommit = r
        /\ resp[r].op = "login" /\ resp[r].outcome = Ok /\ resp[r].overlapped
        /\ resp[Other(r)].op = "login" /\ resp[Other(r)].outcome = Ok
        /\ resp[Other(r)].overlapped
        /\ resp[Other(r)].username = resp[r].username
        => /\ store[resp[r].username].current_refresh_token = resp[r].refresh_token
           /\ Rejected401(resp[Other(r)].refresh_token)

\* the token carries the configured key's signature and is not yet expired at t
SignedAndUnexpired(token, t) ==
    /\ token.scope \in {"access", "refresh"}
    /\ token.key = JWT_SECRET
    /\ t < token.exp

\* C6: a Login whose password does not verify fails Unauthorized and writes
\* nothing: the rows are the same after the call as before it, and every
\* refresh token accepted before the call is accepted after it.
C6_FailedLoginWritesNothing ==
    LET u == Answer.username
    IN  /\ Answer.op = "login"
        /\ Answer.pre[u].present
        /\ Answer.pre[u].password # hash_password(Answer.password)
        => /\ Answer.outcome = UnauthorizedException("Invalid credentials")
           /\ Answer.post = Answer.pre
           /\ \A t \in TokenInputs :
                 refresh_access_token(Answer.pre, t, Answer.at).outcome = Ok
                 => refresh_access_token(Answer.post, t, Answer.at).outcome = Ok

\* C6 witness: a login with a wrong password has failed for a user whose
\* stored refresh token was accepted before the call.
C6_Witness ==
    LET u == Answer.username
    IN  /\ Answer.op = "login"
        /\ Answer.outcome = UnauthorizedException("Invalid credentials")
        /\ Answer.pre[u].current_refresh_token # Null
        /\ refresh_access_token(Answer.pre, Answer.pre[u].current_refresh_token,
                                Answer.at).outcome = Ok

\* C7: RefreshAccessToken(t) returns an access token exactly when t is signed
\* with the configured key, is unexpired, has a subject, the subject's user
\* exists and t equals that user's stored token; when the stored token of
\* the subject's user is null the call fails Unauthorized.
C7_RefreshAcceptsExactlyStored ==
    LET t == Answer.token
    IN  Answer.op = "refresh"
        => /\ (Answer.outcome = Ok /\ Answer.access_token # Null)
              <=> /\ SignedAndUnexpired(t, Answer.at)
                  /\ t.sub # NoSub
                  /\ t.sub \in Usernames
                  /\ Answer.pre[t.sub].present
                  /\ Answer.pre[t.sub].current_refresh_token = t
           /\ Answer.outcome # Ok => Answer.access_token = Null
           /\ (/\ t.sub \in Usernames
               /\ Answer.pre[t.sub].present
               /\ Answer.pre[t.sub].current_refresh_token = Null)
              => Answer.outcome.kind = "Unauthorized"

\* C7 witness: a refresh with the stored token has been answered with the
\* access token issued at that second.
C7_Witness ==
    /\ Answer.op = "refresh"
    /\ Answer.outcome = Ok
    /\ Answer.access_token = generate_access_token(Answer.token.sub, Answer.at)

\* C8: RefreshAccessToken leaves the rows as they were, whether it succeeds or
\* fails, issues no refresh token, and a refresh that succeeded succeeds again
\* when sent again while the token is unexpired and no login or logout came
\* in between.
C8_RefreshLeavesStore ==
    Answer.op = "refresh"
    => /\ Answer.post = Answer.pre
       /\ Answer.refresh_token = Null
       /\ Answer.wrote = NoWrite
       /\ Answer.outcome = Ok => Answer.access_token.scope = "access"
       /\ Answer.repeats /\ SignedAndUnexpired(Answer.token, Answer.at)
          => Answer.outcome = Ok
       /\ Answer.outcome = Ok /\ AllIdle /\ SignedAndUnexpired(Answer.token, now)
          => Accepted(Answer.token)

\* C8 witness: the same refresh token was accepted twice in a row.
C8_Witness ==
    /\ Answer.op = "refresh"
    /\ Answer.repeats
    /\ Answer.outcome = Ok
    /\ Answer.post[Answer.token.sub].current_refresh_token = Answer.token

\* C9: Logout(u, t) fails UserNotFound when u has no row; for an existing user
\* it succeeds exactly when t equals the stored token and then the stored
\* token is null; on a mismatch it fails Unauthorized and the rows are as
\* before.
C9_LogoutOutcomes ==
    LET u == Answer.username
    IN  Answer.op = "logout"
        => IF ~Answer.pre[u].present
           THEN Answer.outcome = UserNotFoundException /\ Answer.post = Answer.pre
           ELSE IF Answer.token = Answer.pre[u].current_refresh_token
           THEN /\ Answer.outcome = Ok
                /\ Answer.post = [Answer.pre EXCEPT ![u].current_refresh_token = Null]
           ELSE /\ Answer.outcome.kind = "Unauthorized"
                /\ Answer.outcome.status = STATUS_UNAUTHORIZED
                /\ Answer.post = Answer.pre

\* C9 witness: a logout with a token other than the stored, non-null one has
\* failed and left it stored.
C9_Witness ==
    LET u == Answer.username
    IN  /\ Answer.op = "logout"
        /\ Answer.outcome = UnauthorizedException("Refresh token mismatch")
        /\ Answer.pre[u].current_refresh_token # Null
        /\ Answer.post[u].current_refresh_token = Answer.pre[u].current_refresh_token

\* C10: a Logout(u, R) sent again right after it succeeded fails Unauthorized,
\* the stored token being null before and after it.
C10_SecondLogoutFails ==
    LET u == Answer.username
    IN  Answer.op = "logout" /\ Answer.repeats
        => /\ Answer.outcome = UnauthorizedException("Refresh token mismatch")
           /\ Answer.pre[u].current_refresh_token = Null
           /\ Answer.post[u].current_refresh_token = Null

\* C10 witness: the second of two equal logouts in a row has been answered.
C10_Witness ==
    /\ Answer.op = "logout"
    /\ Answer.repeats
    /\ Answer.outcome.kind = "Unauthorized"

\* C11: RefreshAccessToken with a token of the configured key presented at or
\* after its expiry second fails Unauthorized (401, "Token expired"), also
\* when the token equals the stored token of its user; a token whose signature
\* is not of the configured key fails Unauthorized (401, "Invalid token").
C11_ExpiredOrInvalidIsUnauthorized ==
    LET t == Answer.token
    IN  Answer.op = "refresh"
        => /\ (/\ t.key = JWT_SECRET
               /\ t.scope \in {"access", "refresh"}
               /\ t.exp <= Answer.at)
              => /\ Answer.outcome = UnauthorizedException("Token expired")
                 /\ Answer.outcome.status = STATUS_UNAUTHORIZED
                 /\ Answer.access_token = Null
           /\ t.key # JWT_SECRET
              => /\ Answer.outcome = UnauthorizedException("Invalid token")
                 /\ Answer.outcome.status = STATUS_UNAUTHORIZED
                 /\ Answer.access_token = Null

\* C11 witness: a refresh with the token that is stored for its user was
\* answered "Token expired" in the very second of the token's exp claim.
C11_Witness ==
    LET t == Answer.token
    IN  /\ Answer.op = "refresh"
        /\ t.sub \in Usernames
        /\ Answer.pre[t.sub].present
        /\ Answer.pre[t.sub].current_refresh_token = t
        /\ t.exp = Answer.at
        /\ Answer.outcome = UnauthorizedException("Token expired")

\* C12: Login for a username without a row fails UserNotFound (404) whatever
\* the password, the verifier's result does not enter the outcome, and the
\* rows are the same after the call as before it.
C12_AbsentUserIsNotFound ==
    LET u == Answer.username
    IN  Answer.op = "login" /\ ~Answer.pre[u].present
        => /\ Answer.outcome = UserNotFoundException
           /\ Answer.outcome.status = STATUS_NOT_FOUND
           /\ Answer.access_token = Null /\ Answer.refresh_token = Null
           /\ Answer.wrote = NoWrite
           /\ Answer.post = Answer.pre

\* C12 witness: a login for the user without a row was answered UserNotFound
\* with the password that is the right one for the users that exist.
C12_Witness ==
    /\ Answer.op = "login"
    /\ ~Answer.pre[Answer.username].present
    /\ Answer.password = "secret123"
    /\ Answer.outcome = UserNotFoundException

\* C13: Login for a user that has a row fails Unauthorized("Invalid
\* credentials") exactly when the row holds no password hash or the password
\* does not verify against it, with one and the same error in both cases;
\* otherwise it succeeds and returns an access and a refresh token.
C13_CredentialCheck ==
    LET u == Answer.username
    IN  Answer.op = "login" /\ Answer.pre[u].present
        => IF \/ Answer.pre[u].password = NoHash
              \/ ~verify_password(Answer.password, Answer.pre[u].password)
           THEN /\ Answer.outcome = UnauthorizedException("Invalid credentials")
                /\ Answer.access_token = Null /\ Answer.refresh_token = Null
           ELSE /\ Answer.outcome = Ok
                /\ Answer.access_token = generate_access_token(u, Answer.at)
                /\ Answer.refresh_token = generate_refresh_token(u, Answer.at)
                /\ Answer.access_token # Null /\ Answer.refresh_token # Null

\* C13 witness: a login for the user whose row holds no password hash was
\* answered Unauthorized("Invalid credentials").
C13_Witness ==
    LET u == Answer.username
    IN  /\ Answer.op = "login"
        /\ Answer.pre[u].present
        /\ Answer.pre[u].password = NoHash
        /\ Answer.outcome = UnauthorizedException("Invalid credentials")

\* the answer to a login with a wrong password for a user that has a row
WrongPasswordOutcome == LoginCheck(Row(TRUE, hash_password("secret123"), Null), "wrong999")

\* C14: a Login that fails is answered with the same error kind and status
\* code whether the username has no row or the row exists and the password
\* is wrong.
C14_FailedLoginHidesExistence ==
    Answer.op = "login" /\ Answer.outcome # Ok
    => /\ Answer.outcome.kind = WrongPasswordOutcome.kind
       /\ Answer.outcome.status = WrongPasswordOutcome.status

\* C15: RefreshAccessToken fails with the first violated precondition in the
\* order signature/expiry, subject claim, existence of the user, equality with
\* the stored token: an expired or invalid token is answered Unauthorized also
\* when its subject has no row, a valid token whose subject has no row is
\* answered UserNotFound.
C15_RefreshFailsFast ==
    LET t == Answer.token
    IN  Answer.op = "refresh"
        => IF ~SignedAndUnexpired(t, Answer.at)
           THEN /\ Answer.outcome.kind = "Unauthorized"
                /\ Answer.outcome.detail \in {"Token expired", "Invalid token"}
           ELSE IF t.sub = NoSub
           THEN Answer.outcome
                    = UnauthorizedException("Invalid refresh token: subject missing")
           ELSE IF ~(t.sub \in Usernames /\ Answer.pre[t.sub].present)
           THEN Answer.outcome = UserNotFoundException
           ELSE IF Answer.pre[t.sub].current_refresh_token # t
           THEN Answer.outcome
                    = UnauthorizedException("Refresh token is invalid or has been logged out")
           ELSE Answer.outcome = Ok

\* C15 witness: a refresh with an expired token whose subject has no row was
\* answered Unauthorized.
C15_Witness ==
    LET t == Answer.token
    IN  /\ Answer.op = "refresh"
        /\ t.sub \in Usernames
        /\ ~Answer.pre[t.sub].present
        /\ t.key = JWT_SECRET
        /\ t.exp <= Answer.at
        /\ Answer.outcome = UnauthorizedException("Token expired")

\* C16: get_current_username answers 401 for every token whose scope is not
\* "access", a signed and unexpired refresh token included, and returns the
\* subject exactly for a signed, unexpired access token that has one.
C16_AccessScopeOnly ==
    LET t == Answer.token
    IN  Answer.op = "current_user"
        => /\ t.scope # "access"
              => /\ Answer.outcome.kind = "Unauthorized"
                 /\ Answer.outcome.status = STATUS_UNAUTHORIZED
           /\ Answer.outcome = Ok
              <=> /\ SignedAndUnexpired(t, Answer.at)
                  /\ t.scope = "access"
                  /\ t.sub # NoSub
           /\ Answer.outcome = Ok => Answer.username = t.sub
           /\ Answer.outcome # Ok => Answer.username = NoSub

\* C16 witness: a signed, unexpired refresh token that is the stored one of
\* its user was rejected for its scope.
C16_Witness ==
    LET t == Answer.token
    IN  /\ Answer.op = "current_user"
        /\ t.scope = "refresh"
        /\ SignedAndUnexpired(t, Answer.at)
        /\ Answer.pre[t.sub].current_refresh_token = t
        /\ Answer.outcome = UnauthorizedException("Invalid token scope")

\* C17: in every state the stored current_refresh_token of a user is null or
\* a refresh-scoped token of that user signed with the configured key, and
\* RefreshAccessToken never succeeds on an access-scoped token: a signed,
\* unexpired access token of an existing user fails the comparison with the
\* stored token with Unauthorized.
C17_AccessTokenNeverRefreshes ==
    LET t == Answer.token
    IN  /\ \A u \in Usernames :
              \/ store[u].current_refresh_token = Null
              \/ /\ store[u].present
                 /\ store[u].current_refresh_token.scope = "refresh"
                 /\ store[u].current_refresh_token.sub = u
                 /\ store[u].current_refresh_token.key = JWT_SECRET
        /\ Answer.op = "refresh" /\ t.scope = "access"
           => /\ Answer.outcome # Ok
              /\ Answer.access_token = Null
              /\ (/\ SignedAndUnexpired(t, Answer.at)
                  /\ t.sub \in Usernames
                  /\ Answer.pre[t.sub].present)
                 => Answer.outcome
                      = UnauthorizedException("Refresh token is invalid or has been logged out")

\* C17 witness: a refresh with a signed, unexpired access token of a user who
\* has a stored refresh token was answered Unauthorized.
C17_Witness ==
    LET t == Answer.token
    IN  /\ Answer.op = "refresh"
        /\ t.scope = "access"
        /\ SignedAndUnexpired(t, Answer.at)
        /\ t.sub \in Usernames
        /\ Answer.pre[t.sub].current_refresh_token # Null
        /\ Answer.outcome.kind = "Unauthorized"

\* C18: a Login of u that succeeds returns two different tokens, neither
\* empty; validating the access token gives scope access and subject u,
\* validating the refresh token gives scope refresh and subject u, and the
\* stored current_refresh_token of u is the returned refresh token.
C18_LoginReturnsTokenPair ==
    LET u == Answer.username
        a == validate_token(Answer.access_token, Answer.at)
        f == validate_token(Answer.refresh_token, Answer.at)
    IN  Answer.op = "login" /\ Answer.outcome = Ok
        => /\ Answer.access_token # Null
           /\ Answer.refresh_token # Null
           /\ Answer.access_token # Answer.refresh_token
           /\ a.ok /\ a.payload.scope = "access" /\ a.payload.sub = u
           /\ f.ok /\ f.payload.scope = "refresh" /\ f.payload.sub = u
           /\ Answer.post[u].current_refresh_token = Answer.refresh_token

\* C18 witness: a login was answered with tokens while another refresh token
\* was stored for the user before the call.
C18_Witness ==
    LET u == Answer.username
    IN  /\ Answer.op = "login"
        /\ Answer.outcome = Ok
        /\ Answer.pre[u].current_refresh_token \notin {Null, Answer.refresh_token}
        /\ Answer.post[u].current_refresh_token = Answer.refresh_token

\* C19: a Logout(u, R) that succeeds has cleared no stored refresh token
\* other than R, also when a Login of u commits a new token between the
\* logout's read of the row and its write of null.
C19_LogoutClearsOnlyItsToken ==
    \A r \in Slots :
        /\ resp[r].op = "logout"
        /\ resp[r].outcome = Ok
        /\ resp[r].cleared \notin {NoWrite, Null}
        => resp[r].cleared = resp[r].token

\* C20: every request in flight works on a session that was created for it:
\* the session its repository and Transactional wrapper use is its own, and
\* no other request in flight in the same process holds or uses that session.
C20_SessionPerRequest ==
    \A r \in InFlight :
        /\ req[r].created
        /\ req[r].db = req[r].session
        /\ \A q \in InFlight \ {r} :
              req[q].proc = req[r].proc
              => /\ req[q].session # req[r].session
                 /\ req[q].db # req[r].db

\* the operations that run under Transactional
TransactionalOps == {"login", "logout", "create", "delete", "soft_delete"}

\* C21: a call of a Transactional operation ends in one of two ways: the
\* function returned and the session was committed, or an exception was
\* raised, the session was rolled back, the exception is the answer and the
\* rows are as before the call; either way the session is closed when the
\* wrapper is left, with nothing pending, and no session stays open once the
\* request is answered.
C21_CommitOrRollbackThenClose ==
    /\ Answer.op \in TransactionalOps
       => \/ /\ Answer.outcome.kind = "ok"
             /\ Answer.ended = "commit"
          \/ /\ Answer.outcome.kind
                  \in {"UserNotFound", "Unauthorized", "UserAlreadyExists", "AttributeError"}
             /\ Answer.ended = "rollback"
             /\ Answer.wrote = NoWrite
             /\ Answer.post = Answer.pre
    /\ \A r \in Slots :
          req[r].pc = "closed" /\ req[r].op \in TransactionalOps
          => /\ req[r].ended \in {"commit", "rollback"}
             /\ <<req[r].proc, req[r].db>> \notin open
             /\ dirty[req[r].proc][req[r].db] = Clean
             /\ staged[req[r].proc][req[r].db] = Unstaged
    /\ AllIdle => open = {}

\* C21 witness: a delete_user of a user with a stored token was committed
\* and its wrapper has closed the session, the request not yet being answered.
C21_Witness ==
    \E r \in Slots :
        /\ req[r].pc = "closed"
        /\ req[r].op = "delete"
        /\ req[r].ended = "commit"
        /\ req[r].pre[req[r].username].current_refresh_token # Null
        /\ ~store[req[r].username].present
        /\ open = {}

\* C22: of two successful Logins of one user in a row, the second returns the
\* refresh token of the first exactly when both were issued in the same clock
\* second; the token is made of the username, the scope and the expiry second
\* alone.
C22_TokenIsFunctionOfUserAndSecond ==
    LET u == Answer.username
    IN  Answer.op = "login" /\ Answer.outcome = Ok
        => /\ Answer.refresh_token.sub = u
           /\ Answer.refresh_token.scope = "refresh"
           /\ Answer.refresh_token.exp
                = Answer.at + JWT_REFRESH_EXPIRATION_MINUTES * SecondsPerMinute
           /\ Answer.repeats
              => (Answer.refresh_token = Answer.prior <=> Answer.at = Answer.prior_at)

\* C22 witness: a login was answered with the very refresh token of the login
\* before it, issued in the same second.
C22_Witness ==
    /\ Answer.op = "login"
    /\ Answer.outcome = Ok
    /\ Answer.repeats
    /\ Answer.at = Answer.prior_at
    /\ Answer.refresh_token = Answer.prior

Undeleted(table) == [u \in Usernames |-> [table[u] EXCEPT !.deleted_at = NotDeleted]]

====
